---- MODULE Spec2Model ----
(***************************************************************************)
(* Kuato browser extension: the chunker of processAndSaveBook              *)
(* (extension/background.js), the Library Store (getLibrary, getBook,      *)
(* updateBook), the load listeners with the offscreen document            *)
(* (setupOffscreenDocument, closeOffscreenDocument) and the delivery       *)
(* sequencer of the content script (extension/content.js: sendChunk,       *)
(* sendNextChunkInSequence and the handlers installed by initializeKuato). *)
(*                                                                         *)
(* Strings are sequences of one-character strings.  Indices of the         *)
(* JavaScript string operations are kept 0-based, as in the source; the    *)
(* helpers below translate to the 1-based sequences of TLA+.               *)
(***************************************************************************)
EXTENDS Integers, Sequences, FiniteSets, Bags, TLC

VARIABLES
    \* ---- processAndSaveBook (background.js 665-729) ----
    text,                \* textContent argument
    chunkSize,           \* settings.chunkSize || 2000
    pc,                  \* position inside processAndSaveBook
    chapters,            \* textContent.split(chapterRegex)
    i,                   \* for-loop index into chapters (0-based)
    chapterTitle,
    remainingText,
    chunkIndexInChapter,
    allChunks,
    loadResponse,        \* what the loadUrl / loadFile listener answered
    \* ---- chrome.storage.local and the background script ----
    library,             \* the persisted kuatoLibrary
    bgQueue,             \* library requests being handled, oldest first
    settings,            \* the persisted kuatoSettings
    now,                 \* Date.now() in the background
    unanswered,          \* actions of the requests whose handler ended
                         \* without a call of sendResponse
    \* ---- the offscreen document (background.js 610-651) ----
    readyPromise,        \* 0 for null, or the number of a promise
    resolveReadyPromise, \* 0 for null, or the promise it resolves
    promises,            \* the readiness promises created so far
    offscreenDocument,   \* "none", "loading" or "ready"
    loads,               \* the load requests that need the document
    \* ---- the content script (content.js 17-18 and its panel) ----
    selected,            \* value of #kuato-library-select
    currentBook,
    isSendingAll,
    sendNextDisabled,    \* #kuato-send-next .disabled
    pauseShown,          \* #kuato-pause shown, #kuato-send-all hidden
    retryButtons,        \* chunk indices with a Retry button in the panel
    dispatches,          \* bag of sendChunk calls with a pending callback;
                         \* awaited (history): the call was made by a click
                         \* on Send Next and no reply was observed since
    \* ---- history ----
    delivered,           \* bag of <<book id, chunkIndex>> put into the chat
    autoSinceReply,      \* the chunk sendNextChunkInSequence dispatched
                         \* last, if since the last observed reply
    clicks               \* clicks of the user so far

chunkerVars == <<text, chunkSize, pc, chapters, i, chapterTitle,
                 remainingText, chunkIndexInChapter, allChunks,
                 loadResponse>>

offscreenVars == <<readyPromise, resolveReadyPromise, promises,
                   offscreenDocument, loads>>

storeVars == <<library, bgQueue, settings, now, unanswered, offscreenVars>>

panelVars == <<selected, currentBook, isSendingAll, sendNextDisabled,
               pauseShown, retryButtons, dispatches>>

historyVars == <<delivered, autoSinceReply, clicks>>

vars == <<chunkerVars, storeVars, panelVars, historyVars>>

(***************************************************************************)
(* Bounds of the model                                                     *)
(***************************************************************************)
MaxPieces == 5          \* pieces a text of the chunker is built from
MaxChunkSize == 3       \* largest settings.chunkSize
MaxChunks == 2          \* chunks of the larger book of the library
MaxInFlight == 2        \* sendChunk calls with a pending callback
MaxQueue == 2           \* library requests the background is handling
MaxClicks == 4          \* clicks of the user in one run
MaxNow == 4             \* the last millisecond of the clock
MaxExtraChunks == 2     \* chunks pushed beyond one per character of the text
MaxShortPieces == 2     \* pieces of a text chunked with a stored chunkSize
MaxLoads == 3           \* load requests that need the offscreen document

(***************************************************************************)
(* JavaScript string helpers                                               *)
(***************************************************************************)
Max(S) == CHOOSE x \in S : \A y \in S : y <= x
Min2(a, b) == IF a <= b THEN a ELSE b

\* Characters String.prototype.trim removes and the regex class \s matches
\* (those of them that occur in the modelled texts).
Whitespace == {" ", "\n"}

\* The regex class \d.
Digits == {"0", "1", "2", "3", "4", "5", "6", "7", "8", "9"}

\* An index clamped to 0..len, as substring and lastIndexOf do.
Clamp(k, len) == IF k < 0 THEN 0 ELSE Min2(k, len)

\* s.substring(a, b), 0-based, b exclusive: both indices are clamped to the
\* string and swapped when a > b.
Substring(s, a, b) ==
    LET x == Clamp(a, Len(s))
        y == Clamp(b, Len(s))
    IN  SubSeq(s, Min2(x, y) + 1, IF x <= y THEN y ELSE x)

RECURSIVE TrimStart(_)
TrimStart(s) ==
    IF s # <<>> /\ Head(s) \in Whitespace THEN TrimStart(Tail(s)) ELSE s

RECURSIVE TrimEnd(_)
TrimEnd(s) ==
    IF s # <<>> /\ s[Len(s)] \in Whitespace
    THEN TrimEnd(SubSeq(s, 1, Len(s) - 1))
    ELSE s

\* s.trim()
Trim(s) == TrimEnd(TrimStart(s))

\* Whether pat occurs in s starting at 0-based index k.
OccursAt(s, pat, k) ==
    /\ k >= 0
    /\ k + Len(pat) <= Len(s)
    /\ \A j \in 1..Len(pat) : s[k + j] = pat[j]

\* s.lastIndexOf(pat, fromIndex): the greatest start index <= fromIndex at
\* which pat occurs, or -1; a negative fromIndex counts as 0.
LastIndexOf(s, pat, fromIndex) ==
    LET from  == Clamp(fromIndex, Len(s))
        found == {k \in 0..Min2(from, Len(s) - Len(pat)) : OccursAt(s, pat, k)}
    IN  IF found = {} THEN -1 ELSE Max(found)

(***************************************************************************)
(* chapterRegex = /(?:^|\n\n)(Chapter\s+\d+|Part\s+\d+|Book\s+\d+)/gi      *)
(***************************************************************************)
UpperLetters == <<"A", "B", "C", "E", "H", "K", "O", "P", "R", "T">>
LowerLetters == <<"a", "b", "c", "e", "h", "k", "o", "p", "r", "t">>

\* Case folding of the i flag, for the letters of the three heading words.
ToLower(c) ==
    IF \E k \in DOMAIN UpperLetters : UpperLetters[k] = c
    THEN LowerLetters[CHOOSE k \in DOMAIN UpperLetters : UpperLetters[k] = c]
    ELSE c

HeadingWords == { <<"c", "h", "a", "p", "t", "e", "r">>,
                  <<"p", "a", "r", "t">>,
                  <<"b", "o", "o", "k">> }

\* Whether word w matches, ignoring case, at 0-based index k of s.
WordAt(s, w, k) ==
    /\ k + Len(w) <= Len(s)
    /\ \A j \in 1..Len(w) : ToLower(s[k + j]) = w[j]

\* Greedy X+ / X*: the first index >= k whose character is not in class.
RECURSIVE SkipClass(_, _, _)
SkipClass(s, k, class) ==
    IF k < Len(s) /\ s[k + 1] \in class THEN SkipClass(s, k + 1, class) ELSE k

\* End (exclusive) of a match of (Chapter\s+\d+|Part\s+\d+|Book\s+\d+)
\* starting at index k, or -1.
HeadingEnd(s, k) ==
    IF \E w \in HeadingWords : WordAt(s, w, k)
    THEN LET w  == CHOOSE x \in HeadingWords : WordAt(s, x, k)
             a  == k + Len(w)
             b  == SkipClass(s, a, Whitespace)
             c  == SkipClass(s, b, Digits)
         IN  IF b > a /\ c > b THEN c ELSE -1
    ELSE -1

\* A slip in line 670: with the m flag ^ also matches after a line break, so
\* a heading at the start of any line is matched.
MatchAtLineStart(s, q) ==
    IF HeadingEnd(s, q) # -1 /\ (q = 0 \/ s[q] = "\n")
    THEN [cap |-> q, end |-> HeadingEnd(s, q)]
    ELSE IF OccursAt(s, <<"\n", "\n">>, q) /\ HeadingEnd(s, q + 2) # -1
         THEN [cap |-> q + 2, end |-> HeadingEnd(s, q + 2)]
         ELSE [cap |-> -1, end |-> -1]

\* A match of chapterRegex that starts exactly at index q: the start of the
\* captured group and the end of the match, or end = -1.
MatchAt(s, q) ==
    IF q = 0 /\ HeadingEnd(s, 0) # -1
    THEN [cap |-> 0, end |-> HeadingEnd(s, 0)]
    ELSE IF OccursAt(s, <<"\n", "\n">>, q) /\ HeadingEnd(s, q + 2) # -1
         THEN [cap |-> q + 2, end |-> HeadingEnd(s, q + 2)]
         ELSE [cap |-> -1, end |-> -1]

\* String.prototype.split with a regex that has one capture group: the
\* pieces between matches alternate with the captured headings.
RECURSIVE SplitFrom(_, _, _)
SplitFrom(s, p, q) ==
    IF q >= Len(s)
    THEN << Substring(s, p, Len(s)) >>
    ELSE LET m == MatchAt(s, q)
         IN  IF m.end = -1
             THEN SplitFrom(s, p, q + 1)
             ELSE << Substring(s, p, q), Substring(s, m.cap, m.end) >>
                      \o SplitFrom(s, m.end, m.end)

\* textContent.split(chapterRegex)
SplitChapters(s) == SplitFrom(s, 0, 0)

(***************************************************************************)
(* The split point of one iteration of the chunking loop                   *)
(***************************************************************************)
SentenceEnders == {".", "!", "?"}

\* A slip in line 700: indexOf in place of lastIndexOf, the first sentence
\* end is taken.
SentenceSplitFirst(rem, cs) ==
    LET ends == {k \in 0..cs : \E e \in SentenceEnders :
                                  OccursAt(rem, <<e, " ">>, k)}
    IN  IF ends = {} THEN -1
        ELSE CHOOSE k \in ends : \A j \in ends : k <= j

\* for (const ender of sentenceEnders) ... if (potentialSplit > splitAt)
SentenceSplit(rem, cs) ==
    Max({-1} \cup {LastIndexOf(rem, <<e, " ">>, cs) : e \in SentenceEnders})

\* A slip in lines 696-704: the split point nearest to the limit is taken,
\* of whatever kind it is.
SplitAtNearest(rem, cs) ==
    LET near == Max({ LastIndexOf(rem, <<"\n", "\n">>, cs),
                      SentenceSplit(rem, cs),
                      LastIndexOf(rem, <<" ">>, cs) })
    IN  IF near # -1 THEN near ELSE cs

\* splitAt of background.js 695-705
SplitAt(rem, cs) ==
    LET dbl == LastIndexOf(rem, <<"\n", "\n">>, cs)
        sen == SentenceSplit(rem, cs)
        spc == LastIndexOf(rem, <<" ">>, cs)
    IN  IF dbl # -1 THEN dbl
        ELSE IF sen # -1 THEN sen
        ELSE IF spc # -1 THEN spc
        ELSE cs

\* A slip in lines 691-693: the remaining text is split even when it fits.
ChunkContentSplit(rem, cs) ==
    Substring(rem, 0, SplitAt(rem, cs) + 1)

\* chunkContent of one iteration, before the trim of line 715
ChunkContent(rem, cs) ==
    IF Len(rem) <= cs THEN rem ELSE Substring(rem, 0, SplitAt(rem, cs) + 1)

\* A slip in line 708: the rest starts one character too late.
RestAfterSkipsOne(rem, cs) ==
    IF Len(rem) <= cs THEN <<>> ELSE Substring(rem, SplitAt(rem, cs) + 2, Len(rem))

\* remainingText after one iteration
RestAfter(rem, cs) ==
    IF Len(rem) <= cs THEN <<>> ELSE Substring(rem, SplitAt(rem, cs) + 1, Len(rem))

(***************************************************************************)
(* Books as processAndSaveBook and addBook store them                      *)
(***************************************************************************)
Introduction == <<"I", "n", "t", "r", "o", "d", "u", "c", "t", "i", "o", "n">>

\* The chunk pushed at lines 711-717.
NewChunk(index, chapter, indexInChapter, content) ==
    [ chunkIndex        |-> index,
      chapter           |-> chapter,
      chapterChunkIndex |-> indexInChapter,
      content           |-> content,
      status            |-> "pending" ]

\* newBook of lines 721-726 with the id addBook gives it (line 586).
NewBook(id, title, chunks) ==
    [ id            |-> id,
      title         |-> title,
      sourceUrl     |-> "url",
      chunks        |-> chunks,
      lastSentChunk |-> -1 ]

\* currentBook = null
NoBook == [ id |-> "", title |-> "", sourceUrl |-> "", chunks |-> <<>>,
            lastSentChunk |-> -1 ]

\* sendResponse of the loadUrl / loadFile listener was not called yet.
NoResponse == [ answered |-> FALSE, success |-> FALSE, error |-> "",
                book |-> NoBook ]

\* sendResponse({ success: true, book: addedBook }), lines 784 and 837
LoadSucceeded(addedBook) ==
    [ answered |-> TRUE, success |-> TRUE, error |-> "", book |-> addedBook ]

\* sendResponse({ success: false, error: error.message }), lines 788 and 841
LoadFailed(message) ==
    [ answered |-> TRUE, success |-> FALSE, error |-> message,
      book |-> NoBook ]

\* A library of two loaded books: one of MaxChunks chunks, one of one.
PlainChunks(n) ==
    [k \in 1..n |-> NewChunk(k - 1, Introduction, k - 1, <<"a">>)]

InitLibrary ==
    << NewBook("book_1", "one", PlainChunks(MaxChunks)),
       NewBook("book_2", "two", PlainChunks(1)) >>

BookIds == {InitLibrary[n].id : n \in DOMAIN InitLibrary}

\* Date.now() when the model starts: later than the ids in InitLibrary.
FirstNow == Len(InitLibrary) + 1

(***************************************************************************)
(* Library Store (background.js 579-606)                                   *)
(***************************************************************************)
\* library.findIndex(book => book.id === bookId), 1-based, 0 when absent
FindIndex(lib, bookId) ==
    IF \E n \in DOMAIN lib : lib[n].id = bookId
    THEN CHOOSE n \in DOMAIN lib :
             /\ lib[n].id = bookId
             /\ \A m \in 1..(n - 1) : lib[m].id # bookId
    ELSE 0

\* { ...library[bookIndex], ...updatedData }
Merge(book, updatedData) ==
    [f \in DOMAIN book \cup DOMAIN updatedData |->
        IF f \in DOMAIN updatedData THEN updatedData[f] ELSE book[f]]

\* The library updateBook writes back, from the library it read.
UpdatedLibrary(lib, bookId, updatedData) ==
    IF FindIndex(lib, bookId) = 0 THEN lib
    ELSE [lib EXCEPT ![FindIndex(lib, bookId)] =
              Merge(lib[FindIndex(lib, bookId)], updatedData)]

\* What the listener answers to an updateBook request, lines 860-863:
\* success is true whatever updateBook returned, book is the updated record
\* or null.
UpdateBookResponse(lib, bookId, updatedData) ==
    [ success |-> TRUE,
      book    |-> IF FindIndex(lib, bookId) = 0 THEN NoBook
                  ELSE Merge(lib[FindIndex(lib, bookId)], updatedData) ]

(***************************************************************************)
(* Content script helpers                                                  *)
(***************************************************************************)
\* A slip in lines 258 and 458: the last chunk not sent is taken.
FindNextLast(book) ==
    IF \E k \in DOMAIN book.chunks : book.chunks[k].status # "sent"
    THEN book.chunks[CHOOSE k \in DOMAIN book.chunks :
             /\ book.chunks[k].status # "sent"
             /\ \A j \in (k + 1)..Len(book.chunks) :
                    book.chunks[j].status = "sent"].chunkIndex
    ELSE -1

\* A slip in lines 258-266: with no chunk left the first one is taken.
FindNextWraps(book) ==
    IF \E k \in DOMAIN book.chunks : book.chunks[k].status # "sent"
    THEN book.chunks[CHOOSE k \in DOMAIN book.chunks :
             /\ book.chunks[k].status # "sent"
             /\ \A j \in 1..(k - 1) : book.chunks[j].status = "sent"].chunkIndex
    ELSE IF book.chunks # <<>> THEN book.chunks[1].chunkIndex ELSE -1

\* currentBook.chunks.find(c => c.status !== 'sent'): its chunkIndex, or -1
FindNext(book) ==
    IF \E k \in DOMAIN book.chunks : book.chunks[k].status # "sent"
    THEN book.chunks[CHOOSE k \in DOMAIN book.chunks :
             /\ book.chunks[k].status # "sent"
             /\ \A j \in 1..(k - 1) : book.chunks[j].status = "sent"].chunkIndex
    ELSE -1

\* renderBookInfo, lines 167-188: a Retry button for every chunk not sent
RetryButtonsOf(book) ==
    {book.chunks[k].chunkIndex : k \in {j \in DOMAIN book.chunks :
                                           book.chunks[j].status # "sent"}}

\* A slip in line 230: every chunk of the book is marked.
MarkSentAll(chunks, index) ==
    [k \in DOMAIN chunks |-> [chunks[k] EXCEPT !.status = "sent"]]

\* chunk.status = 'sent' (line 230), for a chunk of these chunks
MarkSent(chunks, index) ==
    [k \in DOMAIN chunks |->
        IF chunks[k].chunkIndex = index
        THEN [chunks[k] EXCEPT !.status = "sent"]
        ELSE chunks[k]]

\* A slip in line 231: plain assignment instead of Math.max.
NewLastSentAssigned(lastSentChunk, index) == index

\* Math.max(currentBook.lastSentChunk, chunk.chunkIndex) (line 231)
NewLastSent(lastSentChunk, index) ==
    IF index > lastSentChunk THEN index ELSE lastSentChunk

\* The chunk objects of pending sendChunk calls no longer belong to
\* currentBook once currentBook is replaced.
Detached(ds) ==
    LET Count(d) == IF d \in DOMAIN ds THEN ds[d] ELSE 0
    IN  [d \in {[e EXCEPT !.attached = FALSE] : e \in DOMAIN ds} |->
            Count(d) + Count([d EXCEPT !.attached = TRUE])]

\* The pending sendChunk calls after a reply was observed: none of them
\* still awaits its reply.
Replied(ds) ==
    LET Count(d) == IF d \in DOMAIN ds THEN ds[d] ELSE 0
    IN  [d \in {[e EXCEPT !.awaited = FALSE] : e \in DOMAIN ds} |->
            Count(d) + Count([d EXCEPT !.awaited = TRUE])]

\* The load requests that need the offscreen document, in order of arrival.
Loads == 1..MaxLoads

\* A load request that has not arrived: pc is its position in the
\* listener, promise the promise setupOffscreenDocument returned to it,
\* responses the number of calls of sendResponse.
NewLoad == [ pc |-> "new", promise |-> 0, responses |-> 0 ]

\* Lines 611-612 and no offscreen document.
OffscreenIdle ==
    /\ readyPromise = 0
    /\ resolveReadyPromise = 0
    /\ promises = <<>>
    /\ offscreenDocument = "none"
    /\ loads = [l \in Loads |-> NewLoad]

\* No chunk: the value of autoSinceReply after a reply.
NoChunk == <<"", -1>>

PanelInit ==
    /\ library = InitLibrary
    /\ bgQueue = <<>>
    /\ settings = [ chunkSize |-> chunkSize ]
    /\ now = FirstNow
    /\ unanswered = {}
    /\ OffscreenIdle
    /\ selected = ""
    /\ currentBook = NoBook
    /\ isSendingAll = FALSE
    /\ sendNextDisabled = FALSE
    /\ pauseShown = FALSE
    /\ retryButtons = {}
    /\ dispatches = EmptyBag
    /\ delivered = EmptyBag
    /\ autoSinceReply = NoChunk
    /\ clicks = 0

(***************************************************************************)
(* Inputs of the chunker                                                   *)
(***************************************************************************)
Pieces == { <<"a">>, <<" ">>, <<".">>, <<"\n">>,
            <<"P", "a", "r", "t", " ", "1">> }

RECURSIVE TextsOf(_)
TextsOf(n) ==
    IF n = 0 THEN { <<>> }
    ELSE LET shorter == TextsOf(n - 1)
         IN  shorter \cup {t \o p : t \in shorter, p \in Pieces}

Texts == TextsOf(MaxPieces)
ChunkSizes == 1..MaxChunkSize

(***************************************************************************)
(* processAndSaveBook, one action per step of its loops                    *)
(***************************************************************************)
ChunkerInit ==
    /\ text \in Texts
    /\ chunkSize \in ChunkSizes
    /\ pc = "start"
    /\ chapters = <<>>
    /\ i = 0
    /\ chapterTitle = <<>>
    /\ remainingText = <<>>
    /\ chunkIndexInChapter = 0
    /\ allChunks = <<>>
    /\ loadResponse = NoResponse
    /\ PanelInit

\* Lines 666-675: the split into chapters and the loop variables.
SplitText ==
    /\ pc = "start"
    /\ chapters' = SplitChapters(text)
    /\ chapterTitle' = Introduction
    /\ i' = 0
    /\ allChunks' = <<>>
    /\ pc' = "for"
    /\ UNCHANGED <<text, chunkSize, remainingText, chunkIndexInChapter>>
    /\ UNCHANGED <<loadResponse, storeVars, panelVars, historyVars>>

\* A slip in line 680: the heading does not become the chapter title.
TakeHeadingKeepsTitle ==
    /\ pc = "for"
    /\ i < Len(chapters)
    /\ i % 2 = 1
    /\ i' = i + 1
    /\ UNCHANGED <<text, chunkSize, pc, chapters, chapterTitle,
                   remainingText, chunkIndexInChapter, allChunks>>
    /\ UNCHANGED <<loadResponse, storeVars, panelVars, historyVars>>

\* Lines 677-683: an odd element of chapters is a captured heading.
TakeHeading ==
    /\ pc = "for"
    /\ i < Len(chapters)
    /\ i % 2 = 1
    /\ chapterTitle' = Trim(chapters[i + 1])
    /\ i' = i + 1
    /\ UNCHANGED <<text, chunkSize, pc, chapters, remainingText,
                   chunkIndexInChapter, allChunks>>
    /\ UNCHANGED <<loadResponse, storeVars, panelVars, historyVars>>

\* Lines 685-688: an even element is prose; an empty one is skipped.
TakeProse ==
    /\ pc = "for"
    /\ i < Len(chapters)
    /\ i % 2 = 0
    /\ LET t == Trim(chapters[i + 1])
       IN  IF t = <<>>
           THEN /\ i' = i + 1
                /\ UNCHANGED <<pc, remainingText, chunkIndexInChapter>>
           ELSE /\ remainingText' = t
                /\ chunkIndexInChapter' = 0
                /\ pc' = "while"
                /\ UNCHANGED i
    /\ UNCHANGED <<text, chunkSize, chapters, chapterTitle, allChunks>>
    /\ UNCHANGED <<loadResponse, storeVars, panelVars, historyVars>>

\* A slip in line 712: chunkIndex is the index within the chapter.
EmitChunkIndexInChapter ==
    /\ pc = "while"
    /\ Len(allChunks) < Len(text) + MaxExtraChunks
    /\ allChunks' = Append(allChunks,
           NewChunk(chunkIndexInChapter, chapterTitle, chunkIndexInChapter,
                    Trim(ChunkContent(remainingText, chunkSize))))
    /\ chunkIndexInChapter' = chunkIndexInChapter + 1
    /\ remainingText' = RestAfter(remainingText, chunkSize)
    /\ IF remainingText' = <<>>
       THEN pc' = "for" /\ i' = i + 1
       ELSE UNCHANGED <<pc, i>>
    /\ UNCHANGED <<text, chunkSize, chapters, chapterTitle>>
    /\ UNCHANGED <<loadResponse, storeVars, panelVars, historyVars>>

\* Lines 689-718: one iteration of the while loop; the loop is left, and
\* the for loop advanced, when nothing remains.  A loop that removes a
\* character in each iteration pushes at most one chunk per character of
\* the text; one that does not goes on until memory is exhausted, which
\* is MaxExtraChunks chunks later here.
EmitChunk ==
    /\ pc = "while"
    /\ Len(allChunks) < Len(text) + MaxExtraChunks
    /\ allChunks' = Append(allChunks,
           NewChunk(Len(allChunks), chapterTitle, chunkIndexInChapter,
                    Trim(ChunkContent(remainingText, chunkSize))))
    /\ chunkIndexInChapter' = chunkIndexInChapter + 1
    /\ remainingText' = RestAfter(remainingText, chunkSize)
    /\ IF remainingText' = <<>>
       THEN pc' = "for" /\ i' = i + 1
       ELSE UNCHANGED <<pc, i>>
    /\ UNCHANGED <<text, chunkSize, chapters, chapterTitle>>
    /\ UNCHANGED <<loadResponse, storeVars, panelVars, historyVars>>

\* Lines 721-728: the loop is over and the book is built from allChunks.
FinishBook ==
    /\ pc = "for"
    /\ i >= Len(chapters)
    /\ pc' = "done"
    /\ UNCHANGED <<text, chunkSize, chapters, i, chapterTitle, remainingText,
                   chunkIndexInChapter, allChunks>>
    /\ UNCHANGED <<loadResponse, storeVars, panelVars, historyVars>>

ChunkerNext ==
    \/ SplitText
    \/ TakeHeading
    \/ TakeProse
    \/ EmitChunk
    \/ FinishBook

ChunkerSpec == ChunkerInit /\ [][ChunkerNext]_vars

\* processAndSaveBook with a chunk size that every text is shorter than.
LargeChunkSize == Max({Len(t) : t \in Texts}) + 1

LargeInit ==
    /\ text \in Texts
    /\ chunkSize = LargeChunkSize
    /\ pc = "start"
    /\ chapters = <<>>
    /\ i = 0
    /\ chapterTitle = <<>>
    /\ remainingText = <<>>
    /\ chunkIndexInChapter = 0
    /\ allChunks = <<>>
    /\ loadResponse = NoResponse
    /\ PanelInit

LargeSpec == LargeInit /\ [][ChunkerNext]_vars

\* processAndSaveBook over texts with chapters: prose, blank lines and two
\* headings.
ChapterPieces == { <<"a">>, <<" ">>, <<"\n", "\n">>,
                   <<"P", "a", "r", "t", " ", "1">>,
                   <<"P", "a", "r", "t", " ", "2">> }

RECURSIVE ChapterTextsOf(_)
ChapterTextsOf(n) ==
    IF n = 0 THEN { <<>> }
    ELSE LET shorter == ChapterTextsOf(n - 1)
         IN  shorter \cup {t \o p : t \in shorter, p \in ChapterPieces}

ChapterTexts == ChapterTextsOf(MaxPieces)

ChapterInit ==
    /\ text \in ChapterTexts
    /\ chunkSize \in ChunkSizes
    /\ pc = "start"
    /\ chapters = <<>>
    /\ i = 0
    /\ chapterTitle = <<>>
    /\ remainingText = <<>>
    /\ chunkIndexInChapter = 0
    /\ allChunks = <<>>
    /\ loadResponse = NoResponse
    /\ PanelInit

ChapterSpec == ChapterInit /\ [][ChunkerNext]_vars

\* processAndSaveBook over texts with heading words in either letter case
\* at the start of the text, after a blank line, after a single line break
\* and in running prose.
HeadingPieces == { <<"a">>, <<" ">>, <<"\n">>,
                   <<"p", "a", "r", "t", " ", "1">>,
                   <<"B", "O", "O", "K", " ", "2">> }

RECURSIVE HeadingTextsOf(_)
HeadingTextsOf(n) ==
    IF n = 0 THEN { <<>> }
    ELSE LET shorter == HeadingTextsOf(n - 1)
         IN  shorter \cup {t \o p : t \in shorter, p \in HeadingPieces}

HeadingTexts == HeadingTextsOf(MaxPieces)

HeadingInit ==
    /\ text \in HeadingTexts
    /\ chunkSize \in ChunkSizes
    /\ pc = "start"
    /\ chapters = <<>>
    /\ i = 0
    /\ chapterTitle = <<>>
    /\ remainingText = <<>>
    /\ chunkIndexInChapter = 0
    /\ allChunks = <<>>
    /\ loadResponse = NoResponse
    /\ PanelInit

HeadingSpec == HeadingInit /\ [][ChunkerNext]_vars

\* processAndSaveBook over a text of three sentences, the last one long,
\* alone and as the prose of a chapter, with the chunk sizes of the model
\* and one that holds two sentences.
SentencesText ==
    << "S", "e", "n", "t", "e", "n", "c", "e", " ", "o", "n", "e", ".",
       " ", "S", "e", "n", "t", "e", "n", "c", "e", " ", "t", "w", "o",
       ".", " ", "A", " ", "v", "e", "r", "y", " ", "l", "o", "n", "g",
       " ", "s", "e", "n", "t", "e", "n", "c", "e", " ", "t", "h", "a",
       "t", " ", "k", "e", "e", "p", "s", " ", "g", "o", "i", "n", "g",
       " ", "a", "n", "d", " ", "g", "o", "i", "n", "g", " ", "a", "n",
       "d", " ", "g", "o", "i", "n", "g", "." >>

SentencesTexts ==
    { SentencesText,
      <<"P", "a", "r", "t", " ", "1", "\n", "\n">> \o SentencesText }

SentencesChunkSizes == ChunkSizes \cup {30}

SentencesInit ==
    /\ text \in SentencesTexts
    /\ chunkSize \in SentencesChunkSizes
    /\ pc = "start"
    /\ chapters = <<>>
    /\ i = 0
    /\ chapterTitle = <<>>
    /\ remainingText = <<>>
    /\ chunkIndexInChapter = 0
    /\ allChunks = <<>>
    /\ loadResponse = NoResponse
    /\ PanelInit

SentencesSpec == SentencesInit /\ [][ChunkerNext]_vars

(***************************************************************************)
(* The content script: clicks, callbacks and the reply observer            *)
(***************************************************************************)
HasBook == currentBook # NoBook

ChunkerIdle ==
    /\ text = <<>>
    /\ chunkSize = 1
    /\ pc = "idle"
    /\ chapters = <<>>
    /\ i = 0
    /\ chapterTitle = <<>>
    /\ remainingText = <<>>
    /\ chunkIndexInChapter = 0
    /\ allChunks = <<>>
    /\ loadResponse = NoResponse

Init == ChunkerIdle /\ PanelInit

\* chrome.runtime.sendMessage of a library request to the background.
Request(action, bookId, data) ==
    [ action |-> action, bookId |-> bookId, data |-> data,
      phase |-> "sent", lib |-> <<>> ]

NoData == [ none |-> TRUE ]

\* sendChunk(chunk) up to the upload request, lines 193-205, for the chunk
\* of currentBook with this chunkIndex; pending are the calls whose
\* callbacks are pending.
SendChunk(index, awaited, pending) ==
    /\ BagCardinality(pending) < MaxInFlight
    /\ sendNextDisabled' = TRUE
    /\ dispatches' = pending (+) SetToBag({
           [ chunkIndex |-> index, bookId |-> currentBook.id,
             attached |-> TRUE, phase |-> "upload", awaited |-> awaited ]})

\* sendNextChunkInSequence, lines 253-267, called with isSendingAll =
\* sending and the pause button shown or not.  replied: the caller is the
\* reply observer, which has just enabled the send-next button.
SendNextChunkInSequence(sending, shown, replied) ==
    LET since    == IF replied THEN NoChunk ELSE autoSinceReply
        disabled == IF replied THEN FALSE ELSE sendNextDisabled
        pending  == IF replied THEN Replied(dispatches) ELSE dispatches
    IN  IF ~sending \/ ~HasBook
        THEN /\ isSendingAll' = FALSE
             /\ pauseShown' = shown
             /\ sendNextDisabled' = disabled
             /\ autoSinceReply' = since
             /\ dispatches' = pending
        ELSE IF FindNext(currentBook) # -1
             THEN /\ SendChunk(FindNext(currentBook), FALSE, pending)
                  /\ isSendingAll' = sending
                  /\ pauseShown' = shown
                  /\ autoSinceReply' = <<currentBook.id, FindNext(currentBook)>>
             ELSE /\ isSendingAll' = FALSE
                  /\ pauseShown' = FALSE
                  /\ sendNextDisabled' = disabled
                  /\ autoSinceReply' = since
                  /\ dispatches' = pending

\* One more click of the user.
Click ==
    /\ clicks < MaxClicks
    /\ clicks' = clicks + 1

\* The change handler of the book selector, lines 437-453, for a book.
SelectBook(bookId) ==
    /\ Click
    /\ bookId # selected
    /\ Len(bgQueue) < MaxQueue
    /\ selected' = bookId
    /\ bgQueue' = Append(bgQueue, Request("getBook", bookId, NoData))
    /\ UNCHANGED <<chunkerVars, settings, now, unanswered, offscreenVars,
                   library, currentBook, isSendingAll, sendNextDisabled,
                   pauseShown, retryButtons, dispatches, delivered,
                   autoSinceReply>>

\* The same handler for "-- No book selected --", lines 449-452.
DeselectBook ==
    /\ Click
    /\ selected # ""
    /\ selected' = ""
    /\ currentBook' = NoBook
    /\ retryButtons' = {}
    /\ dispatches' = Detached(dispatches)
    /\ UNCHANGED <<chunkerVars, storeVars, isSendingAll, sendNextDisabled,
                   pauseShown, delivered, autoSinceReply>>

\* Click on Send Next, lines 456-467 (the button is in the book panel,
\* which is shown while a book is current).
SendNextClick ==
    /\ Click
    /\ HasBook
    /\ ~sendNextDisabled
    /\ IF FindNext(currentBook) # -1
       THEN SendChunk(FindNext(currentBook), TRUE, dispatches)
       ELSE UNCHANGED <<sendNextDisabled, dispatches>>
    /\ UNCHANGED <<chunkerVars, storeVars, selected, currentBook,
                   isSendingAll, pauseShown, retryButtons, delivered,
                   autoSinceReply>>

\* Click on Send All, lines 472-478.
SendAllClick ==
    /\ Click
    /\ HasBook
    /\ ~pauseShown
    /\ SendNextChunkInSequence(TRUE, TRUE, FALSE)
    /\ UNCHANGED <<chunkerVars, storeVars, selected, currentBook,
                   retryButtons, delivered>>

\* A slip in line 481: Pause only swaps the buttons.
PauseClickKeepsFlag ==
    /\ Click
    /\ HasBook
    /\ pauseShown
    /\ pauseShown' = FALSE
    /\ UNCHANGED <<chunkerVars, storeVars, selected, currentBook,
                   isSendingAll, sendNextDisabled, retryButtons, dispatches,
                   delivered, autoSinceReply>>

\* Click on Pause, lines 480-484.
PauseClick ==
    /\ Click
    /\ HasBook
    /\ pauseShown
    /\ isSendingAll' = FALSE
    /\ pauseShown' = FALSE
    /\ UNCHANGED <<chunkerVars, storeVars, selected, currentBook,
                   sendNextDisabled, retryButtons, dispatches, delivered,
                   autoSinceReply>>

\* Click on a Retry button, line 184.
RetryClick(index) ==
    /\ Click
    /\ HasBook
    /\ index \in retryButtons
    /\ SendChunk(index, FALSE, dispatches)
    /\ UNCHANGED <<chunkerVars, storeVars, selected, currentBook,
                   isSendingAll, pauseShown, retryButtons, delivered,
                   autoSinceReply>>

\* What the user types into the rename prompt (trimmed, not empty).
NewTitles == {"new"}

\* Click on Rename, lines 398-411, up to the updateBook request.
RenameClick ==
    /\ Click
    /\ HasBook
    /\ Len(bgQueue) < MaxQueue
    /\ \E newTitle \in NewTitles :
          bgQueue' = Append(bgQueue,
              Request("updateBook", currentBook.id, [ title |-> newTitle ]))
    /\ UNCHANGED <<chunkerVars, library, settings, now, unanswered,
                   offscreenVars, panelVars, delivered, autoSinceReply>>

\* Click on Save in the settings dialog, lines 310-321, and saveSettings in
\* the background, lines 571-574 and 868-870.
SaveSettingsClick ==
    /\ Click
    /\ \E n \in ChunkSizes \ {settings.chunkSize} :
          settings' = [ chunkSize |-> n ]
    /\ UNCHANGED <<chunkerVars, library, bgQueue, now, unanswered,
                   offscreenVars, panelVars, delivered, autoSinceReply>>

\* A slip in lines 495-497: the observer enables the send-next button and
\* does not call sendNextChunkInSequence.
ReplyIgnored ==
    /\ sendNextDisabled' = FALSE
    /\ autoSinceReply' = NoChunk
    /\ dispatches' = Replied(dispatches)
    /\ UNCHANGED <<chunkerVars, storeVars, selected, currentBook,
                   isSendingAll, pauseShown, retryButtons, delivered,
                   clicks>>

\* The MutationObserver callback for one added reply node, lines 492-498.
ReplyObserved ==
    /\ IF isSendingAll
       THEN SendNextChunkInSequence(TRUE, pauseShown, TRUE)
       ELSE /\ sendNextDisabled' = FALSE
            /\ autoSinceReply' = NoChunk
            /\ dispatches' = Replied(dispatches)
            /\ UNCHANGED <<isSendingAll, pauseShown>>
    /\ UNCHANGED <<chunkerVars, storeVars, selected, currentBook,
                   retryButtons, delivered, clicks>>

(***************************************************************************)
(* The callbacks of sendChunk, lines 205-250                               *)
(***************************************************************************)
InPhase(d, phase) == BagIn(d, dispatches) /\ d.phase = phase

Without(d) == dispatches (-) SetToBag({d})

\* The upload failed: lines 246-249.
UploadFailed(d) ==
    /\ InPhase(d, "upload")
    /\ sendNextDisabled' = FALSE
    /\ dispatches' = Without(d)
    /\ UNCHANGED <<chunkerVars, storeVars, selected, currentBook,
                   isSendingAll, pauseShown, retryButtons, historyVars>>

\* The upload succeeded but no book is current: currentBook.title at line
\* 208 throws and the callback ends.
UploadedNoBook(d) ==
    /\ InPhase(d, "upload")
    /\ ~HasBook
    /\ dispatches' = Without(d)
    /\ UNCHANGED <<chunkerVars, storeVars, selected, currentBook,
                   isSendingAll, sendNextDisabled, pauseShown, retryButtons,
                   historyVars>>

\* The upload succeeded but the chat input or the send button is not on
\* the page: lines 241-245.
ElementsMissing(d) ==
    /\ InPhase(d, "upload")
    /\ HasBook
    /\ sendNextDisabled' = FALSE
    /\ dispatches' = Without(d)
    /\ UNCHANGED <<chunkerVars, storeVars, selected, currentBook,
                   isSendingAll, pauseShown, retryButtons, historyVars>>

\* The upload succeeded and the message is put into the chat input: lines
\* 206-223, up to the start of the 100 ms timer.
Uploaded(d) ==
    /\ InPhase(d, "upload")
    /\ HasBook
    /\ dispatches' = Without(d) (+) SetToBag({[d EXCEPT !.phase = "timer"]})
    /\ UNCHANGED <<chunkerVars, storeVars, selected, currentBook,
                   isSendingAll, sendNextDisabled, pauseShown, retryButtons,
                   historyVars>>

\* The timer fires and the send button is disabled: lines 224-227.
SendButtonDisabled(d) ==
    /\ InPhase(d, "timer")
    /\ sendNextDisabled' = FALSE
    /\ dispatches' = Without(d)
    /\ UNCHANGED <<chunkerVars, storeVars, selected, currentBook,
                   isSendingAll, pauseShown, retryButtons, historyVars>>

\* The timer fires and the message is sent: lines 229-238.
Deliver(d) ==
    /\ InPhase(d, "timer")
    /\ HasBook
    /\ Len(bgQueue) < MaxQueue
    /\ LET chunks == IF d.attached
                     THEN MarkSent(currentBook.chunks, d.chunkIndex)
                     ELSE currentBook.chunks
           last   == NewLastSent(currentBook.lastSentChunk, d.chunkIndex)
       IN  /\ currentBook' = [currentBook EXCEPT !.chunks = chunks,
                                                 !.lastSentChunk = last]
           /\ bgQueue' = Append(bgQueue,
                  Request("updateBook", currentBook.id,
                          [chunks |-> chunks, lastSentChunk |-> last]))
    /\ delivered' = delivered (+) SetToBag({<<d.bookId, d.chunkIndex>>})
    /\ dispatches' = Without(d)
    /\ UNCHANGED <<chunkerVars, settings, now, unanswered, offscreenVars,
                   library, selected, isSendingAll, sendNextDisabled,
                   pauseShown, retryButtons, autoSinceReply, clicks>>

\* The timer fires and the message is sent while no book is current: the
\* chunk object is marked, then currentBook.lastSentChunk at line 231
\* throws.
DeliverNoBook(d) ==
    /\ InPhase(d, "timer")
    /\ ~HasBook
    /\ delivered' = delivered (+) SetToBag({<<d.bookId, d.chunkIndex>>})
    /\ dispatches' = Without(d)
    /\ UNCHANGED <<chunkerVars, storeVars, selected, currentBook,
                   isSendingAll, sendNextDisabled, pauseShown, retryButtons,
                   autoSinceReply, clicks>>

(***************************************************************************)
(* The background's handlers of getBook and updateBook requests,           *)
(* lines 856-863.  Requests are taken up in the order sent; each reads     *)
(* the library (await getLibrary()) and later finishes.                    *)
(***************************************************************************)
\* await getLibrary() of the oldest request that has not read yet.
BgRead ==
    /\ \E n \in DOMAIN bgQueue :
          /\ bgQueue[n].phase = "sent"
          /\ \A m \in 1..(n - 1) : bgQueue[m].phase = "read"
          /\ bgQueue' = [bgQueue EXCEPT ![n].phase = "read",
                                        ![n].lib = library]
    /\ UNCHANGED <<chunkerVars, settings, now, unanswered, offscreenVars,
                   library, panelVars, historyVars>>

\* getBook answers and the select handler's callback runs: lines 592-595,
\* 857 and 440-448.
GetBookDone ==
    /\ bgQueue # <<>>
    /\ Head(bgQueue).phase = "read"
    /\ Head(bgQueue).action = "getBook"
    /\ LET lib == Head(bgQueue).lib
           n   == FindIndex(lib, Head(bgQueue).bookId)
       IN  IF n # 0
           THEN /\ currentBook' = lib[n]
                /\ retryButtons' = RetryButtonsOf(lib[n])
           ELSE /\ currentBook' = NoBook
                /\ retryButtons' = {}
    /\ dispatches' = Detached(dispatches)
    /\ bgQueue' = Tail(bgQueue)
    /\ UNCHANGED <<chunkerVars, settings, now, unanswered, offscreenVars,
                   library, selected, isSendingAll, sendNextDisabled,
                   pauseShown, historyVars>>

\* updateBook writes the library back and answers, lines 597-606 and 861;
\* the callback of the request runs: sendChunk's renders the panel, lines
\* 236-238, the rename handler's, when the response has success, sets the
\* title of currentBook and renders the panel, lines 412-416 (a TypeError
\* ends it when no book is selected).
UpdateBookDone ==
    /\ bgQueue # <<>>
    /\ Head(bgQueue).phase = "read"
    /\ Head(bgQueue).action = "updateBook"
    /\ library' = IF FindIndex(Head(bgQueue).lib, Head(bgQueue).bookId) # 0
                  THEN UpdatedLibrary(Head(bgQueue).lib, Head(bgQueue).bookId,
                                      Head(bgQueue).data)
                  ELSE library
    /\ currentBook' = IF /\ "title" \in DOMAIN Head(bgQueue).data
                         /\ UpdateBookResponse(Head(bgQueue).lib,
                                Head(bgQueue).bookId,
                                Head(bgQueue).data).success
                         /\ HasBook
                      THEN [currentBook EXCEPT
                                !.title = Head(bgQueue).data.title]
                      ELSE currentBook
    /\ retryButtons' = IF HasBook THEN RetryButtonsOf(currentBook)
                       ELSE retryButtons
    /\ bgQueue' = Tail(bgQueue)
    /\ UNCHANGED <<chunkerVars, settings, now, unanswered, offscreenVars,
                   selected, isSendingAll, sendNextDisabled, pauseShown,
                   dispatches, historyVars>>

\* A millisecond passes.
Tick ==
    /\ now < MaxNow
    /\ now' = now + 1
    /\ UNCHANGED <<chunkerVars, library, bgQueue, settings, unanswered,
                   offscreenVars, panelVars, historyVars>>

\* `book_${Date.now()}`, line 586
BookIdAt(ms) == "book_" \o ToString(ms)

\* newBook of processAndSaveBook, lines 721-726, for the texts the user
\* loads: each of one chunk, with its own title, source and content.
AddedBooks ==
    { [ title |-> "three", sourceUrl |-> "url3",
        chunks |-> <<NewChunk(0, Introduction, 0, <<"b">>)>>,
        lastSentChunk |-> -1 ],
      [ title |-> "four", sourceUrl |-> "url4",
        chunks |-> <<NewChunk(0, Introduction, 0, <<"c">>)>>,
        lastSentChunk |-> -1 ] }

\* The user loads a text and processAndSaveBook calls addBook(newBook),
\* line 728: addBook up to its await of getLibrary, line 585.
AddBookCall(bookData) ==
    /\ Click
    /\ Len(bgQueue) < MaxQueue
    /\ bgQueue' = Append(bgQueue, Request("addBook", "", bookData))
    /\ UNCHANGED <<chunkerVars, library, settings, now, unanswered,
                   offscreenVars, panelVars, delivered, autoSinceReply>>

\* addBook after getLibrary returned, lines 586-589: the id, the push and
\* the write of the whole library; the listener of the load that called
\* it answers with the book, lines 783-784 and 836-837.
AddBookDone ==
    /\ bgQueue # <<>>
    /\ Head(bgQueue).phase = "read"
    /\ Head(bgQueue).action = "addBook"
    /\ library' = Append(Head(bgQueue).lib,
                         Merge(Head(bgQueue).data, [ id |-> BookIdAt(now) ]))
    /\ bgQueue' = Tail(bgQueue)
    /\ IF pc = "saving"
       THEN /\ pc' = "loaded"
            /\ loadResponse' = LoadSucceeded(
                   Merge(Head(bgQueue).data, [ id |-> BookIdAt(now) ]))
       ELSE UNCHANGED <<pc, loadResponse>>
    /\ UNCHANGED <<text, chunkSize, chapters, i, chapterTitle, remainingText,
                   chunkIndexInChapter, allChunks, settings, now, unanswered,
                   offscreenVars, panelVars, historyVars>>

\* chrome.storage.local rejects the read of getBook or the read or the
\* write of updateBook, lines 580 and 602: the promise of lines 857 and 861
\* rejects, its then-callback does not run and nothing catches it, so
\* sendResponse is not called and the requester's callback gets no
\* response.
StorageFails ==
    /\ bgQueue # <<>>
    /\ Head(bgQueue).action \in {"getBook", "updateBook"}
    /\ bgQueue' = Tail(bgQueue)
    /\ unanswered' = unanswered \cup {Head(bgQueue).action}
    /\ UNCHANGED <<chunkerVars, library, settings, now, offscreenVars,
                   panelVars, historyVars>>

(***************************************************************************)
(* The loadUrl and loadFile listeners, lines 742-849                       *)
(***************************************************************************)
\* error.message of the errors the try block can throw
FetchError == "Network request failed"
ParseError == "result.error"
StorageError == "storage error"

\* A load request arrives: the listener starts to fetch the source, which
\* holds one of the texts.
LoadInit ==
    /\ text \in Texts
    /\ chunkSize \in ChunkSizes
    /\ pc = "fetch"
    /\ chapters = <<>>
    /\ i = 0
    /\ chapterTitle = <<>>
    /\ remainingText = <<>>
    /\ chunkIndexInChapter = 0
    /\ allChunks = <<>>
    /\ loadResponse = NoResponse
    /\ PanelInit

\* fetch rejects or the response is not ok, lines 747-748; the catch block
\* answers, lines 786-788.
FetchFails ==
    /\ pc = "fetch"
    /\ pc' = "failed"
    /\ loadResponse' = LoadFailed(FetchError)
    /\ UNCHANGED <<text, chunkSize, chapters, i, chapterTitle, remainingText,
                   chunkIndexInChapter, allChunks, storeVars, panelVars,
                   historyVars>>

\* The source was fetched (loadFile: was sent with the request), lines
\* 750-778 and 803-833: HTML, PDF and EPUB go to the offscreen parser,
\* plain text goes to processAndSaveBook.
FetchDone ==
    /\ pc = "fetch"
    /\ \E needsOffscreen \in BOOLEAN :
          pc' = IF needsOffscreen THEN "parse" ELSE "start"
    /\ UNCHANGED <<text, chunkSize, chapters, i, chapterTitle, remainingText,
                   chunkIndexInChapter, allChunks, loadResponse, storeVars,
                   panelVars, historyVars>>

\* A slip in lines 786-788: the catch block does not answer.
ParseFailsSilently ==
    /\ pc = "parse"
    /\ pc' = "failed"
    /\ UNCHANGED <<text, chunkSize, chapters, i, chapterTitle, remainingText,
                   chunkIndexInChapter, allChunks, loadResponse, storeVars,
                   panelVars, historyVars>>

\* The parser answers without success, or cannot be reached: the listener
\* throws, lines 759, 766, 772, and the catch block answers.
ParseFails ==
    /\ pc = "parse"
    /\ pc' = "failed"
    /\ loadResponse' = LoadFailed(ParseError)
    /\ UNCHANGED <<text, chunkSize, chapters, i, chapterTitle, remainingText,
                   chunkIndexInChapter, allChunks, storeVars, panelVars,
                   historyVars>>

\* The parser answers with the text, lines 760-761, 767-768, 773-774.
ParseDone ==
    /\ pc = "parse"
    /\ pc' = "start"
    /\ UNCHANGED <<text, chunkSize, chapters, i, chapterTitle, remainingText,
                   chunkIndexInChapter, allChunks, loadResponse, storeVars,
                   panelVars, historyVars>>

\* return await addBook(newBook), line 728, up to addBook's await of
\* getLibrary, line 585.
SaveBook ==
    /\ pc = "done"
    /\ Len(bgQueue) < MaxQueue
    /\ pc' = "saving"
    /\ bgQueue' = Append(bgQueue, Request("addBook", "",
           [ title |-> "loaded", sourceUrl |-> "url", chunks |-> allChunks,
             lastSentChunk |-> -1 ]))
    /\ UNCHANGED <<text, chunkSize, chapters, i, chapterTitle, remainingText,
                   chunkIndexInChapter, allChunks, loadResponse, library,
                   settings, now, unanswered, offscreenVars, panelVars,
                   historyVars>>

\* chrome.storage.local rejects the read or the write of addBook, lines
\* 580 and 588: nothing is stored, processAndSaveBook throws and the catch
\* block answers.
SaveBookFails ==
    /\ pc = "saving"
    /\ bgQueue # <<>>
    /\ Head(bgQueue).action = "addBook"
    /\ bgQueue' = Tail(bgQueue)
    /\ pc' = "failed"
    /\ loadResponse' = LoadFailed(StorageError)
    /\ UNCHANGED <<text, chunkSize, chapters, i, chapterTitle, remainingText,
                   chunkIndexInChapter, allChunks, library, settings, now,
                   unanswered, offscreenVars, panelVars, historyVars>>

Next ==
    \/ \E b \in BookIds : SelectBook(b)
    \/ DeselectBook
    \/ SendNextClick
    \/ SendAllClick
    \/ PauseClick
    \/ \E k \in 0..(MaxChunks - 1) : RetryClick(k)
    \/ RenameClick
    \/ SaveSettingsClick
    \/ ReplyObserved
    \/ \E d \in BagToSet(dispatches) : UploadFailed(d)
    \/ \E d \in BagToSet(dispatches) : UploadedNoBook(d)
    \/ \E d \in BagToSet(dispatches) : ElementsMissing(d)
    \/ \E d \in BagToSet(dispatches) : Uploaded(d)
    \/ \E d \in BagToSet(dispatches) : SendButtonDisabled(d)
    \/ \E d \in BagToSet(dispatches) : Deliver(d)
    \/ \E d \in BagToSet(dispatches) : DeliverNoBook(d)
    \/ BgRead
    \/ GetBookDone
    \/ UpdateBookDone

Spec == Init /\ [][Next]_vars

(***************************************************************************)
(* Sending from one book: the user selects a book once and then uses the   *)
(* panel's buttons.                                                        *)
(***************************************************************************)
OneBookNext ==
    \/ \E b \in BookIds : selected = "" /\ SelectBook(b)
    \/ SendNextClick
    \/ SendAllClick
    \/ PauseClick
    \/ \E k \in 0..(MaxChunks - 1) : RetryClick(k)
    \/ ReplyObserved
    \/ \E d \in BagToSet(dispatches) : UploadFailed(d)
    \/ \E d \in BagToSet(dispatches) : ElementsMissing(d)
    \/ \E d \in BagToSet(dispatches) : Uploaded(d)
    \/ \E d \in BagToSet(dispatches) : SendButtonDisabled(d)
    \/ \E d \in BagToSet(dispatches) : Deliver(d)
    \/ BgRead
    \/ GetBookDone
    \/ UpdateBookDone

OneBookSpec == Init /\ [][OneBookNext]_vars

(***************************************************************************)
(* Send All on one book: the user selects a book once and clicks Send All; *)
(* every upload and every delivery succeeds, Pause is not clicked.  Each   *)
(* pending callback is eventually called, the background eventually        *)
(* handles each request, and replies keep arriving.                        *)
(***************************************************************************)
LiveNext ==
    \/ \E b \in BookIds : selected = "" /\ SelectBook(b)
    \/ SendAllClick
    \/ ReplyObserved
    \/ \E d \in BagToSet(dispatches) : Uploaded(d)
    \/ \E d \in BagToSet(dispatches) : Deliver(d)
    \/ BgRead
    \/ GetBookDone
    \/ UpdateBookDone

\* Send All without Retry and without Send Next: the user selects a book
\* once and clicks Send All and Pause; every upload and every delivery
\* succeeds; replies arrive at any time.
SendAllNext ==
    \/ \E b \in BookIds : selected = "" /\ SelectBook(b)
    \/ SendAllClick
    \/ PauseClick
    \/ ReplyObserved
    \/ \E d \in BagToSet(dispatches) : Uploaded(d)
    \/ \E d \in BagToSet(dispatches) : Deliver(d)
    \/ BgRead
    \/ GetBookDone
    \/ UpdateBookDone

SendAllSpec == Init /\ [][SendAllNext]_vars

\* Books are added while the panel is in use: the user loads texts,
\* selects a book of the library and clicks Send Next; every upload and
\* every delivery succeeds.
StoreNext ==
    \/ Tick
    \/ \E bookData \in AddedBooks : AddBookCall(bookData)
    \/ AddBookDone
    \/ StorageFails
    \/ \E n \in DOMAIN library : SelectBook(library[n].id)
    \/ SendNextClick
    \/ \E d \in BagToSet(dispatches) : Uploaded(d)
    \/ \E d \in BagToSet(dispatches) : Deliver(d)
    \/ BgRead
    \/ GetBookDone
    \/ UpdateBookDone

StoreSpec == Init /\ [][StoreNext]_vars

\* One load request from its arrival to the listener's answer.
LoadNext ==
    \/ FetchFails
    \/ FetchDone
    \/ ParseFails
    \/ ParseDone
    \/ SplitText
    \/ TakeHeading
    \/ TakeProse
    \/ EmitChunk
    \/ FinishBook
    \/ SaveBook
    \/ SaveBookFails
    \/ BgRead
    \/ AddBookDone

LoadSpec == LoadInit /\ [][LoadNext]_vars

(***************************************************************************)
(* Load requests that need the offscreen document: HTML, PDF and EPUB,     *)
(* lines 610-651, 733-740 and the listeners of loadUrl and loadFile.       *)
(* Each await of the listener ends a step.  What follows the parse result  *)
(* (processAndSaveBook) is part of the step that receives it.              *)
(***************************************************************************)
offscreenRest == <<chunkerVars, library, bgQueue, settings, now, unanswered,
                   panelVars, historyVars>>

\* await of a promise goes on when it is resolved; await of null goes on.
Resolved(p) == IF p = 0 THEN TRUE ELSE promises[p] = "resolved"

\* resolveReadyPromise() for promise p
Resolve(p) == [promises EXCEPT ![p] = "resolved"]

\* The load moves to position pos.
At(l, pos) == [loads EXCEPT ![l].pc = pos]

\* The request arrives and the listener calls setupOffscreenDocument, lines
\* 753-754 and 808-809, up to its first await: lines 614-623.
SetupOffscreenDocument(l) ==
    /\ loads[l].pc = "new"
    /\ \A k \in 1..(l - 1) : loads[k].pc # "new"
    /\ IF readyPromise # 0
       THEN /\ loads' = [loads EXCEPT ![l].pc = "awaitReady",
                                      ![l].promise = readyPromise]
            /\ UNCHANGED <<readyPromise, resolveReadyPromise, promises>>
       ELSE /\ promises' = Append(promises, "pending")
            /\ readyPromise' = Len(promises) + 1
            /\ resolveReadyPromise' = Len(promises) + 1
            /\ loads' = At(l, "getContexts")
    /\ UNCHANGED <<offscreenDocument, offscreenRest>>

\* getContexts answers, lines 623-637: with a document the promise of the
\* current resolver is resolved (a TypeError when the resolver is null) and
\* readyPromise returned; without one createDocument is called.
GotContexts(l) ==
    /\ loads[l].pc = "getContexts"
    /\ IF offscreenDocument = "none"
       THEN /\ offscreenDocument' = "loading"
            /\ loads' = At(l, "creating")
            /\ UNCHANGED promises
       ELSE IF resolveReadyPromise = 0
            THEN /\ loads' = At(l, "catch")
                 /\ UNCHANGED <<offscreenDocument, promises>>
            ELSE /\ promises' = Resolve(resolveReadyPromise)
                 /\ loads' = [loads EXCEPT ![l].pc = "awaitReady",
                                           ![l].promise = readyPromise]
                 /\ UNCHANGED offscreenDocument
    /\ UNCHANGED <<readyPromise, resolveReadyPromise, offscreenRest>>

\* createDocument answers and setupOffscreenDocument returns what
\* readyPromise holds now, lines 631-638.
Created(l) ==
    /\ loads[l].pc = "creating"
    /\ loads' = [loads EXCEPT ![l].pc = "awaitReady",
                              ![l].promise = readyPromise]
    /\ UNCHANGED <<readyPromise, resolveReadyPromise, promises,
                   offscreenDocument, offscreenRest>>

\* The script of the offscreen document has run and sent offscreenReady,
\* offscreen.js 110; the listener resolves the promise of the current
\* resolver, if there is one, lines 735-740.
OffscreenReady ==
    /\ offscreenDocument = "loading"
    /\ offscreenDocument' = "ready"
    /\ promises' = IF resolveReadyPromise # 0
                   THEN Resolve(resolveReadyPromise) ELSE promises
    /\ UNCHANGED <<readyPromise, resolveReadyPromise, loads, offscreenRest>>

\* The await of setupOffscreenDocument ends and the parse message is sent,
\* lines 754-758: sendMessage rejects when no offscreen document listens.
SendParse(l) ==
    /\ loads[l].pc = "awaitReady"
    /\ Resolved(loads[l].promise)
    /\ loads' = At(l, IF offscreenDocument = "ready" THEN "parsing"
                      ELSE "catch")
    /\ UNCHANGED <<readyPromise, resolveReadyPromise, promises,
                   offscreenDocument, offscreenRest>>

\* The offscreen parser answers, offscreen.js handleMessages: a failure is
\* thrown, line 759; with a success the book is processed and saved and
\* the listener answers, lines 783-784.
ParseResult(l) ==
    /\ loads[l].pc = "parsing"
    /\ \E success \in BOOLEAN :
          loads' = IF success
                   THEN [loads EXCEPT ![l].pc = "finally",
                                      ![l].responses = @ + 1]
                   ELSE At(l, "catch")
    /\ UNCHANGED <<readyPromise, resolveReadyPromise, promises,
                   offscreenDocument, offscreenRest>>

\* The document was closed while the parser worked: the message gets no
\* result and line 759 throws.
ParseAborted(l) ==
    /\ loads[l].pc = "aborted"
    /\ loads' = At(l, "catch")
    /\ UNCHANGED <<readyPromise, resolveReadyPromise, promises,
                   offscreenDocument, offscreenRest>>

\* The catch block answers, lines 785-788.
Catch(l) ==
    /\ loads[l].pc = "catch"
    /\ loads' = [loads EXCEPT ![l].pc = "finally", ![l].responses = @ + 1]
    /\ UNCHANGED <<readyPromise, resolveReadyPromise, promises,
                   offscreenDocument, offscreenRest>>

\* The finally block, lines 789-793, calls closeOffscreenDocument, lines
\* 640-645: an existing document is closed, whoever uses it.
CloseOffscreenDocument(l) ==
    /\ loads[l].pc = "finally"
    /\ IF offscreenDocument # "none"
       THEN /\ offscreenDocument' = "none"
            /\ loads' = [k \in Loads |->
                  IF k = l THEN [loads[k] EXCEPT !.pc = "closing"]
                  ELSE IF loads[k].pc = "parsing"
                       THEN [loads[k] EXCEPT !.pc = "aborted"]
                       ELSE loads[k]]
            /\ UNCHANGED <<readyPromise, resolveReadyPromise>>
       ELSE /\ readyPromise' = 0
            /\ resolveReadyPromise' = 0
            /\ loads' = At(l, "end")
            /\ UNCHANGED offscreenDocument
    /\ UNCHANGED <<promises, offscreenRest>>

\* closeDocument answers and the promise and its resolver are reset, lines
\* 646-650.
Closed(l) ==
    /\ loads[l].pc = "closing"
    /\ readyPromise' = 0
    /\ resolveReadyPromise' = 0
    /\ loads' = At(l, "end")
    /\ UNCHANGED <<promises, offscreenDocument, offscreenRest>>

\* What a load request does once it has arrived.
LoadStep(l) ==
    \/ GotContexts(l)
    \/ Created(l)
    \/ SendParse(l)
    \/ ParseResult(l)
    \/ ParseAborted(l)
    \/ Catch(l)
    \/ CloseOffscreenDocument(l)
    \/ Closed(l)

OffscreenNext ==
    \/ \E l \in Loads : SetupOffscreenDocument(l)
    \/ \E l \in Loads : GotContexts(l)
    \/ \E l \in Loads : Created(l)
    \/ OffscreenReady
    \/ \E l \in Loads : SendParse(l)
    \/ \E l \in Loads : ParseResult(l)
    \/ \E l \in Loads : ParseAborted(l)
    \/ \E l \in Loads : Catch(l)
    \/ \E l \in Loads : CloseOffscreenDocument(l)
    \/ \E l \in Loads : Closed(l)

OffscreenSpec == Init /\ [][OffscreenNext]_vars

\* The same where chrome, the offscreen document and the parser answer:
\* every step of an arrived request and the readiness signal are taken when
\* they stay possible.
OffscreenLiveSpec ==
    /\ Init
    /\ [][OffscreenNext]_vars
    /\ \A l \in Loads : WF_vars(LoadStep(l))
    /\ WF_vars(OffscreenReady)

(***************************************************************************)
(* processAndSaveBook's read of the settings, lines 666-667                *)
(***************************************************************************)
\* chunkSize when the settings give none, line 667
DefaultChunkSize == 2000

\* result.kuatoSettings when storage holds no settings record: undefined
NoSettings == [ undefined |-> TRUE ]

\* What storage can hold under kuatoSettings: nothing, a record without
\* chunkSize, a record with chunkSize 0 or NaN, a record with a chunkSize.
StoredSettings ==
    { NoSettings, [ pastebinService |-> "fars.ee" ], [ chunkSize |-> 0 ] }
        \cup { [ chunkSize |-> n ] : n \in ChunkSizes }

\* settings.chunkSize || 2000, line 667, for a settings record
ChunkSizeOrDefault(s) ==
    IF "chunkSize" \in DOMAIN s /\ s.chunkSize # 0 THEN s.chunkSize
    ELSE DefaultChunkSize

\* error.message of the TypeError of line 667
SettingsError == "Cannot read properties of undefined"

\* A loadFile request with a plain text arrives and the listener calls
\* processAndSaveBook, line 836, which awaits getSettings, line 666.
SettingsInit ==
    /\ text \in Texts
    /\ settings \in StoredSettings
    /\ chunkSize = 0
    /\ pc = "settings"
    /\ chapters = <<>>
    /\ i = 0
    /\ chapterTitle = <<>>
    /\ remainingText = <<>>
    /\ chunkIndexInChapter = 0
    /\ allChunks = <<>>
    /\ loadResponse = NoResponse
    /\ library = InitLibrary
    /\ bgQueue = <<>>
    /\ now = FirstNow
    /\ unanswered = {}
    /\ OffscreenIdle
    /\ selected = ""
    /\ currentBook = NoBook
    /\ isSendingAll = FALSE
    /\ sendNextDisabled = FALSE
    /\ pauseShown = FALSE
    /\ retryButtons = {}
    /\ dispatches = EmptyBag
    /\ delivered = EmptyBag
    /\ autoSinceReply = NoChunk
    /\ clicks = 0

\* getSettings returns a record, line 666, and line 667 takes its
\* chunkSize or the default.
GetSettingsDone ==
    /\ pc = "settings"
    /\ settings # NoSettings
    /\ chunkSize' = ChunkSizeOrDefault(settings)
    /\ pc' = "start"
    /\ UNCHANGED <<text, chapters, i, chapterTitle, remainingText,
                   chunkIndexInChapter, allChunks, loadResponse, storeVars,
                   panelVars, historyVars>>

\* getSettings returns undefined, line 568: settings.chunkSize throws a
\* TypeError, line 667, and the catch block of the listener answers, lines
\* 839-841.
GetSettingsUndefined ==
    /\ pc = "settings"
    /\ settings = NoSettings
    /\ pc' = "failed"
    /\ loadResponse' = LoadFailed(SettingsError)
    /\ UNCHANGED <<text, chunkSize, chapters, i, chapterTitle, remainingText,
                   chunkIndexInChapter, allChunks, storeVars, panelVars,
                   historyVars>>

SettingsNext ==
    \/ GetSettingsDone
    \/ GetSettingsUndefined
    \/ SplitText
    \/ TakeHeading
    \/ TakeProse
    \/ EmitChunk
    \/ FinishBook
    \/ SaveBook
    \/ BgRead
    \/ AddBookDone

SettingsSpec == SettingsInit /\ [][SettingsNext]_vars

\* What the save-settings handler can store as chunkSize, content.js 312:
\* parseInt of the text of the input field, any integer (NaN counts as 0
\* in line 667).
StorableChunkSizes == (0 - MaxChunkSize)..MaxChunkSize

\* processAndSaveBook is called with a short text while the settings hold a
\* stored chunkSize.
StoredSizeInit ==
    /\ text \in TextsOf(MaxShortPieces)
    /\ settings \in { [ chunkSize |-> n ] : n \in StorableChunkSizes }
    /\ chunkSize = 0
    /\ pc = "settings"
    /\ chapters = <<>>
    /\ i = 0
    /\ chapterTitle = <<>>
    /\ remainingText = <<>>
    /\ chunkIndexInChapter = 0
    /\ allChunks = <<>>
    /\ loadResponse = NoResponse
    /\ library = InitLibrary
    /\ bgQueue = <<>>
    /\ now = FirstNow
    /\ unanswered = {}
    /\ OffscreenIdle
    /\ selected = ""
    /\ currentBook = NoBook
    /\ isSendingAll = FALSE
    /\ sendNextDisabled = FALSE
    /\ pauseShown = FALSE
    /\ retryButtons = {}
    /\ dispatches = EmptyBag
    /\ delivered = EmptyBag
    /\ autoSinceReply = NoChunk
    /\ clicks = 0

StoredSizeNext ==
    \/ GetSettingsDone
    \/ SplitText
    \/ TakeHeading
    \/ TakeProse
    \/ EmitChunk
    \/ FinishBook

\* The function runs on: each of its steps is eventually taken.
StoredSizeSpec ==
    /\ StoredSizeInit
    /\ [][StoredSizeNext]_vars
    /\ WF_vars(StoredSizeNext)

LiveSpec ==
    /\ Init
    /\ [][LiveNext]_vars
    /\ WF_vars(ReplyObserved)
    /\ WF_vars(\E d \in BagToSet(dispatches) : Uploaded(d))
    /\ WF_vars(\E d \in BagToSet(dispatches) : Deliver(d))
    /\ WF_vars(BgRead)
    /\ WF_vars(GetBookDone)
    /\ WF_vars(UpdateBookDone)

(***************************************************************************)
(* Properties of the chunker                                               *)
(***************************************************************************)
Contents(chunks) == [k \in DOMAIN chunks |-> chunks[k].content]

\* Whether the 0-based index k of rem starts a split point of the kinds the
\* loop looks for: a double line-break, a sentence ender followed by a
\* space, or a space.
IsSplitPoint(rem, k) ==
    \/ OccursAt(rem, <<"\n", "\n">>, k)
    \/ \E e \in SentenceEnders : OccursAt(rem, <<e, " ">>, k)
    \/ OccursAt(rem, <<" ">>, k)

\* C1: every emitted chunk has at most chunkSize characters unless the
\* remaining text had no split point in reach of the limit.  The exception
\* is read in the way most favourable to the claim: it applies whenever no
\* split point starts within the first chunkSize characters of the
\* remaining text.
C1_ChunkWithinLimit ==
    [][ ( /\ pc = "while"
          /\ allChunks' # allChunks
          /\ \E k \in 0..(chunkSize - 1) : IsSplitPoint(remainingText, k) )
        => Len(allChunks'[Len(allChunks')].content) <= chunkSize ]_vars

\* The concatenation of the even (prose) elements of a split result.
RECURSIVE JoinProse(_)
JoinProse(parts) ==
    IF parts = <<>> THEN <<>>
    ELSE IF Len(parts) = 1 THEN parts[1]
    ELSE parts[1] \o JoinProse(SubSeq(parts, 3, Len(parts)))

\* Whether s is the chunk contents cs, in order, with nothing but
\* whitespace before, between and after them.
RECURSIVE Rejoins(_, _)
Rejoins(s, cs) ==
    IF cs = <<>> THEN Trim(s) = <<>>
    ELSE LET t == TrimStart(s)
             c == Head(cs)
         IN  /\ Len(c) <= Len(t)
             /\ SubSeq(t, 1, Len(c)) = c
             /\ Rejoins(SubSeq(t, Len(c) + 1, Len(t)), Tail(cs))

\* C9 as stated: the chunk contents, re-joined in order, are the whole
\* input text up to whitespace at the chunk boundaries.
C9_RejoinWholeText ==
    pc = "done" => Rejoins(text, Contents(allChunks))

\* C9 amended: the chunk contents, re-joined in order, are the prose of the
\* input, that is the text without its matched chapter headings, up to
\* whitespace at the chunk boundaries.
C9_RejoinProse ==
    pc = "done" => Rejoins(JoinProse(SplitChapters(text)), Contents(allChunks))

\* A finished run over a text with a matched heading whose prose was split
\* into several chunks, one of them cut at a boundary that was trimmed.
C9_Witness ==
    /\ pc = "done"
    /\ Len(chapters) >= 3
    /\ Len(allChunks) >= 2
    /\ \E k \in DOMAIN allChunks : allChunks[k].chapter # Introduction
    /\ \E k \in 1..Len(text) : text[k] = " "

\* C10: every emitted chunk has non-empty content.
C10_ContentNonEmpty ==
    \A k \in DOMAIN allChunks : allChunks[k].content # <<>>

\* An iteration of the chunking loop over a remaining text longer than
\* chunkSize emits a chunk.
SplitsLongText ==
    /\ pc = "while"
    /\ allChunks' # allChunks
    /\ Len(remainingText) > chunkSize

\* C11: when the remaining text is longer than chunkSize and no split point
\* (double line-break, sentence ender followed by a space, space) starts at
\* or before index chunkSize, the chunk emitted is the first chunkSize
\* characters and the remaining text goes on from index chunkSize.
C11_HardCutAtChunkSize ==
    [][ ( /\ SplitsLongText
          /\ \A k \in 0..chunkSize : ~IsSplitPoint(remainingText, k) )
        => /\ allChunks'[Len(allChunks')].content =
                  Trim(Substring(remainingText, 0, chunkSize))
           /\ remainingText' =
                  Substring(remainingText, chunkSize, Len(remainingText)) ]_vars

\* The greatest index up to cs at which one of the patterns starts, or -1.
LastAt(rem, cs, pats) ==
    Max({-1} \cup {k \in 0..cs : \E p \in pats : OccursAt(rem, p, k)})

DoubleBreak == { <<"\n", "\n">> }
SentenceEnds == { <<e, " ">> : e \in SentenceEnders }
Space == { <<" ">> }

\* The split point by priority: the last double line-break, else the last
\* sentence end, else the last space, at or before cs; -1 if there is none.
PrioritySplit(rem, cs) ==
    IF LastAt(rem, cs, DoubleBreak) # -1 THEN LastAt(rem, cs, DoubleBreak)
    ELSE IF LastAt(rem, cs, SentenceEnds) # -1 THEN LastAt(rem, cs, SentenceEnds)
    ELSE LastAt(rem, cs, Space)

Books == {currentBook} \cup {library[n] : n \in DOMAIN library}

Sent(book, index) ==
    \E k \in DOMAIN book.chunks :
        /\ book.chunks[k].chunkIndex = index
        /\ book.chunks[k].status = "sent"

AllSent(book) ==
    \A k \in DOMAIN book.chunks : book.chunks[k].status = "sent"

\* The highest chunkIndex of the book whose status is sent, -1 if none.
HighestSent(book) ==
    Max({-1} \cup {book.chunks[k].chunkIndex :
                      k \in {j \in DOMAIN book.chunks :
                                 book.chunks[j].status = "sent"}})

\* Every mark of every copy follows a delivery: a chunk with status sent
\* was put into the chat, and so was a chunk with the index lastSentChunk.
MarksFollowDelivery ==
    \A book \in Books :
        /\ \A k \in DOMAIN book.chunks :
              book.chunks[k].status = "sent" =>
                  BagIn(<<book.id, book.chunks[k].chunkIndex>>, delivered)
        /\ book.lastSentChunk # -1 =>
              \E b \in BookIds : BagIn(<<b, book.lastSentChunk>>, delivered)

\* A step in which a pending sendChunk call ends and nothing is put into
\* the chat: the dispatch failed.
DispatchEndsUndelivered ==
    /\ BagCardinality(dispatches') < BagCardinality(dispatches)
    /\ delivered' = delivered

\* C2: a chunk has status sent, and lastSentChunk has a chunk's index, only
\* after a dispatch of that chunk was delivered; a step in which a dispatch
\* ends without a delivery changes no chunk status and no lastSentChunk,
\* in the content script's copy and in the persisted library, and sends no
\* update.
C2_MarkedOnlyAfterDelivery ==
    [][ /\ MarksFollowDelivery'
        /\ DispatchEndsUndelivered =>
              UNCHANGED <<currentBook, library, bgQueue>> ]_vars

\* The first chunk of a book is sent and persisted, and the Send All
\* dispatch of a later chunk has ended without a delivery: that chunk is
\* still pending, in both copies.
C2_Witness ==
    /\ HasBook
    /\ isSendingAll
    /\ dispatches = EmptyBag
    /\ Sent(currentBook, 0)
    /\ autoSinceReply[1] = currentBook.id
    /\ autoSinceReply[2] > 0
    /\ ~BagIn(autoSinceReply, delivered)
    /\ \A book \in Books :
          book.id = currentBook.id =>
              /\ Sent(book, 0)
              /\ ~Sent(book, autoSinceReply[2])
              /\ book.lastSentChunk = 0

\* The pending sendChunk calls for chunks of a book.
InFlight(bookId) ==
    LET ds == {d \in DOMAIN dispatches : d.bookId = bookId}
    IN  BagCardinality([d \in ds |-> dispatches[d]])

\* C3: for one book, at most one dispatch is in flight.
C3_OneInFlight ==
    \A b \in BookIds : InFlight(b) <= 1

\* C4: in every copy of every book, lastSentChunk is at most the highest
\* chunkIndex with status sent, and -1 when no chunk is sent.
C4_LastSentBounded ==
    \A book \in Books : book.lastSentChunk <= HighestSent(book)

\* C5: lastSentChunk of a book never decreases, neither in the content
\* script's copy nor in the persisted record, while the user sends from
\* the book (Send Next, Send All, Pause, Retry) and replies arrive.
C5_LastSentMonotonic ==
    [][ /\ (HasBook /\ currentBook'.id = currentBook.id) =>
              currentBook'.lastSentChunk >= currentBook.lastSentChunk
        /\ \A n \in DOMAIN library :
              library'[n].lastSentChunk >= library[n].lastSentChunk ]_vars

\* A later chunk was delivered and persisted before chunk 0 was delivered:
\* the persisted record holds lastSentChunk above 0 with chunk 0 pending,
\* the content script's copy has chunk 0 sent and the same lastSentChunk.
C5_Witness ==
    /\ HasBook
    /\ Sent(currentBook, 0)
    /\ currentBook.lastSentChunk > 0
    /\ \E n \in DOMAIN library :
          /\ library[n].id = currentBook.id
          /\ ~Sent(library[n], 0)
          /\ library[n].lastSentChunk = currentBook.lastSentChunk

\* C6: a dispatch that fails while auto-advance is enabled disables
\* auto-advance.
C6_FailureHaltsAutoAdvance ==
    [][ (isSendingAll /\ DispatchEndsUndelivered) => ~isSendingAll' ]_vars

\* C7: after Send All has dispatched a chunk, it dispatches a different
\* chunk only in a step in which a reply is observed.
C7_ReplyBetweenChunks ==
    [][ ( /\ autoSinceReply # NoChunk
          /\ autoSinceReply' # NoChunk
          /\ autoSinceReply' # autoSinceReply ) => ReplyObserved ]_vars

\* The chunk indices of the book whose status is not sent.
PendingIndices(book) ==
    {book.chunks[k].chunkIndex :
        k \in {j \in DOMAIN book.chunks : book.chunks[j].status # "sent"}}

MinOf(S) == CHOOSE x \in S : \A y \in S : x <= y

\* The pending sendChunk calls and one more, started now for the chunk of
\* currentBook with this index (whatever reply the calls await).
WithDispatchOf(index) ==
    Replied(dispatches) (+) SetToBag({
        [ chunkIndex |-> index, bookId |-> currentBook.id,
          attached |-> TRUE, phase |-> "upload", awaited |-> FALSE ]})

\* A step that calls sendNext: a click on Send Next or on Send All, or a
\* reply observed while Send All is on.
SendNextInvoked ==
    \/ SendNextClick
    \/ SendAllClick
    \/ isSendingAll /\ ReplyObserved

\* C13: sendNext dispatches the chunk of lowest chunkIndex whose status is
\* not sent and nothing else; when every chunk is sent it dispatches
\* nothing; in both cases no chunk status changes.
C13_LowestPendingNext ==
    [][ (HasBook /\ SendNextInvoked) =>
          /\ currentBook' = currentBook
          /\ library' = library
          /\ Replied(dispatches') =
                 IF PendingIndices(currentBook) = {}
                 THEN Replied(dispatches)
                 ELSE WithDispatchOf(MinOf(PendingIndices(currentBook))) ]_vars

\* Chunk 0 of the book is sent and sendNext (a click on Send Next, or Send
\* All) has dispatched chunk 1, which is not sent yet.
C13_Witness ==
    /\ HasBook
    /\ Sent(currentBook, 0)
    /\ ~Sent(currentBook, 1)
    /\ \E d \in BagToSet(dispatches) :
          /\ d.chunkIndex = 1
          /\ d.attached
          /\ d.awaited \/ autoSinceReply = <<currentBook.id, 1>>

\* A step in which the pending sendChunk call d puts its message into the
\* chat.
DeliveryOf(d) ==
    /\ BagIn(d, dispatches)
    /\ d.phase = "timer"
    /\ dispatches' = dispatches (-) SetToBag({d})
    /\ delivered' = delivered (+) SetToBag({<<d.bookId, d.chunkIndex>>})

\* A click that hides the Pause button.
PauseClicked ==
    /\ pauseShown
    /\ ~pauseShown'
    /\ clicks' # clicks

\* C14: a click on Pause turns Send All off and leaves the pending
\* dispatches alone; while Send All is off a pending dispatch of the
\* book's own chunk still marks the chunk sent when it is delivered, a
\* reply dispatches nothing, and only a click on Send All turns Send All
\* on again.
C14_PauseStopsAutoAdvance ==
    [][ /\ PauseClicked => (~isSendingAll' /\ dispatches' = dispatches)
        /\ \A d \in BagToSet(dispatches) :
              (~isSendingAll /\ HasBook /\ d.attached /\ DeliveryOf(d)) =>
                  Sent(currentBook', d.chunkIndex)
        /\ (~isSendingAll /\ ReplyObserved) =>
               (~isSendingAll' /\ Replied(dispatches') = Replied(dispatches))
        /\ (~isSendingAll /\ isSendingAll') => SendAllClick ]_vars

\* Send All dispatched chunk 0 and was paused; the dispatch was delivered
\* and marked, a reply was observed, and chunk 1 was not dispatched.
C14_Witness ==
    /\ HasBook
    /\ clicks = 3
    /\ ~isSendingAll
    /\ ~pauseShown
    /\ ~sendNextDisabled
    /\ autoSinceReply = NoChunk
    /\ dispatches = EmptyBag
    /\ delivered = SetToBag({<<currentBook.id, 0>>})
    /\ Sent(currentBook, 0)
    /\ ~Sent(currentBook, 1)

\* C15: when a step of Send All (a reply observed, or the click on Send
\* All) finds every chunk of the book sent, it dispatches nothing and
\* turns Send All off, and a reply observed while Send All is off
\* dispatches nothing.
C15_ExhaustionStops ==
    [][ /\ ( /\ HasBook
             /\ AllSent(currentBook)
             /\ SendAllClick \/ (isSendingAll /\ ReplyObserved) ) =>
               /\ ~isSendingAll'
               /\ ~pauseShown'
               /\ Replied(dispatches') = Replied(dispatches)
        /\ (~isSendingAll /\ ReplyObserved) =>
               Replied(dispatches') = Replied(dispatches) ]_vars

\* Every chunk of the larger book is sent, in the content script's copy
\* and in the library, Send All is off and the Send All button is back.
C15_Witness ==
    /\ currentBook.id = "book_1"
    /\ AllSent(currentBook)
    /\ \A n \in DOMAIN library :
          library[n].id = currentBook.id => AllSent(library[n])
    /\ ~isSendingAll
    /\ ~pauseShown
    /\ ~sendNextDisabled
    /\ autoSinceReply = NoChunk
    /\ dispatches = EmptyBag
    /\ clicks = 2

\* C16: while a dispatch made by a click on Send Next is pending and no
\* reply was observed since the click, the Send Next button is disabled.
C16_SendNextDisabledUntilReply ==
    \A d \in BagToSet(dispatches) : d.awaited => sendNextDisabled

Identity(chunks) ==
    [k \in DOMAIN chunks |->
        [ chunkIndex        |-> chunks[k].chunkIndex,
          chapter           |-> chunks[k].chapter,
          chapterChunkIndex |-> chunks[k].chapterChunkIndex,
          content           |-> chunks[k].content ]]

\* The chunks a book was created with: a book the user added is known by
\* its source, a book of InitLibrary by its id.
CreatedChunks(book) ==
    IF \E b \in AddedBooks : b.sourceUrl = book.sourceUrl
    THEN (CHOOSE b \in AddedBooks : b.sourceUrl = book.sourceUrl).chunks
    ELSE InitLibrary[FindIndex(InitLibrary, book.id)].chunks

\* C18: every book of the library, and the content script's copy of the
\* selected book, has the chunks the book was created with, in the same
\* order and with the same chunkIndex, chapter, chapterChunkIndex and
\* content.
C18_ChunksFixed ==
    /\ \A m \in DOMAIN library :
          Identity(library[m].chunks) = Identity(CreatedChunks(library[m]))
    /\ HasBook =>
          Identity(currentBook.chunks) = Identity(CreatedChunks(currentBook))

\* C19: the books of the stored library have pairwise distinct ids.
C19_IdsDistinct ==
    \A m, n \in DOMAIN library :
        m # n => library[m].id # library[n].id

\* C20: when addBook(b) completes, the stored library is the library
\* stored before, unchanged and in the same order, followed by b with its
\* id.
C20_AddAppendsOne ==
    [][ AddBookDone =>
          /\ Len(library') = Len(library) + 1
          /\ SubSeq(library', 1, Len(library)) = library
          /\ library'[Len(library')] =
                 Merge(Head(bgQueue).data, [ id |-> BookIdAt(now) ]) ]_vars

\* C21: when getBook answers, the book it returns is every book of the
\* library it read that has the id asked for (so the book addBook returned
\* with this id, and no other record), and it returns no book when the
\* library it read has no book with this id.
C21_GetBookReturnsTheBook ==
    [][ GetBookDone =>
          /\ \A n \in DOMAIN Head(bgQueue).lib :
                Head(bgQueue).lib[n].id = Head(bgQueue).bookId =>
                    currentBook' = Head(bgQueue).lib[n]
          /\ (\A n \in DOMAIN Head(bgQueue).lib :
                 Head(bgQueue).lib[n].id # Head(bgQueue).bookId) =>
                    currentBook' = NoBook ]_vars

\* C22: when updateBook(id, fields) completes for an id the stored library
\* has, the stored library has the same books at the same positions as
\* before; the book with the id has the fields given, and every other field
\* of it, and every other book, is as it was stored before.
C22_UpdateReplacesGivenFields ==
    [][ (UpdateBookDone /\ FindIndex(library, Head(bgQueue).bookId) # 0) =>
          LET n    == FindIndex(library, Head(bgQueue).bookId)
              data == Head(bgQueue).data
          IN  /\ Len(library') = Len(library)
              /\ \A m \in DOMAIN library \ {n} : library'[m] = library[m]
              /\ DOMAIN library'[n] = DOMAIN library[n]
              /\ \A f \in DOMAIN library[n] :
                    library'[n][f] = IF f \in DOMAIN data THEN data[f]
                                     ELSE library[n][f] ]_vars

\* C23: when updateBook completes for an id that the library it read does
\* not have, the stored library stays as it is and the response to the
\* caller is not a success.
C23_UpdateOfAbsentId ==
    [][ (UpdateBookDone /\
         FindIndex(Head(bgQueue).lib, Head(bgQueue).bookId) = 0) =>
          /\ library' = library
          /\ ~UpdateBookResponse(Head(bgQueue).lib, Head(bgQueue).bookId,
                                 Head(bgQueue).data).success ]_vars

\* C24: no write of the library undoes a completed operation: when
\* addBook completes every record stored before is still stored, and when
\* updateBook completes every record stored before under another id is
\* still stored.
C24_NoWriteLost ==
    [][ /\ AddBookDone =>
              \A m \in DOMAIN library :
                  \E k \in DOMAIN library' : library'[k] = library[m]
        /\ UpdateBookDone =>
              \A m \in DOMAIN library :
                  library[m].id # Head(bgQueue).bookId =>
                      \E k \in DOMAIN library' : library'[k] = library[m]
      ]_vars

\* C25: a load that failed has answered with a failure that carries a
\* reason and has left the stored library as it was; while a load is under
\* way the library is as it was; and the library has a book more only
\* when the load has answered with success, and then the book has the
\* chunks of the whole text, the loop over the chapters being over.
C25_LoadAllOrNothing ==
    /\ pc = "failed" =>
          /\ loadResponse.answered
          /\ ~loadResponse.success
          /\ loadResponse.error # ""
          /\ library = InitLibrary
    /\ pc \in {"fetch", "parse", "start", "for", "while", "done", "saving"} =>
          /\ library = InitLibrary
          /\ ~loadResponse.answered
    /\ library # InitLibrary =>
          /\ pc = "loaded"
          /\ loadResponse.answered /\ loadResponse.success
          /\ library = Append(InitLibrary, loadResponse.book)
          /\ loadResponse.book.chunks = allChunks
          /\ i >= Len(chapters)
          /\ remainingText = <<>>

\* The source was fetched, the parser failed on it, and the listener has
\* answered.
C25_Witness ==
    /\ pc = "failed"
    /\ loadResponse = LoadFailed(ParseError)
    /\ text # <<>>
    /\ library = InitLibrary

\* C26: no getBook or updateBook request ends without an answer to the
\* requester: a failure of the storage is answered as a failure.
C26_StorageFailureAnswered ==
    unanswered = {}

\* C27 as stated: a text shorter than chunkSize yields exactly one chunk,
\* whose content is the trimmed text.
C27_OneChunkOfTrimmedText ==
    (pc = "done" /\ Len(text) < chunkSize) =>
        /\ Len(allChunks) = 1
        /\ allChunks[1].content = Trim(text)

\* C27 amended: a text shorter than chunkSize in which no chapter heading
\* is matched yields no chunk when it is empty or whitespace only, and
\* otherwise exactly one chunk, whose content is the trimmed text.
C27_OneChunkOfPlainText ==
    (pc = "done" /\ Len(text) < chunkSize /\ Len(SplitChapters(text)) = 1) =>
        IF Trim(text) = <<>>
        THEN allChunks = <<>>
        ELSE /\ Len(allChunks) = 1
             /\ allChunks[1].content = Trim(text)

\* A finished run over a text without a heading, shorter than chunkSize,
\* that has whitespace at an end and a space and a sentence end inside.
C27_Witness ==
    /\ pc = "done"
    /\ Len(text) < chunkSize
    /\ Len(SplitChapters(text)) = 1
    /\ Len(allChunks) = 1
    /\ text # Trim(text)
    /\ \E k \in 0..(Len(text) - 1) :
          OccursAt(Trim(text), <<".", " ">>, k)

\* C28: the chunk at array position k (from 0) has chunkIndex k, at every
\* moment of the chunking and in the finished book, whatever the chapters.
C28_ChunkIndexIsPosition ==
    \A k \in DOMAIN allChunks : allChunks[k].chunkIndex = k - 1

\* A finished run whose chunks belong to two chapters, the second chapter
\* starting after the first chunk.
C28_Witness ==
    /\ pc = "done"
    /\ Len(allChunks) >= 2
    /\ allChunks[1].chapter = Introduction
    /\ allChunks[2].chapter # Introduction
    /\ allChunks[2].chapterChunkIndex = 0

\* C29: chapterChunkIndex is 0 at the first chunk of the book and at every
\* chunk whose chapter label differs from that of the chunk before it, and
\* is one more than that of the chunk before it at every other chunk.
C29_ChapterChunkIndex ==
    \A k \in DOMAIN allChunks :
        allChunks[k].chapterChunkIndex =
            IF k = 1 \/ allChunks[k - 1].chapter # allChunks[k].chapter
            THEN 0
            ELSE allChunks[k - 1].chapterChunkIndex + 1

\* The indices of s at which a heading word followed by a number starts.
HeadingStarts(s) == {k \in 0..(Len(s) - 1) : HeadingEnd(s, k) # -1}

\* Whether index k of s is the start of s or directly follows a blank line.
AfterBlankLine(s, k) ==
    k = 0 \/ (k >= 2 /\ OccursAt(s, <<"\n", "\n">>, k - 2))

\* The <<chapter, content>> pairs of one chunk per non-empty prose segment
\* of s from index from on, the segment at from being labelled label: a
\* segment ends before the blank line of the next heading, or with s.
RECURSIVE ChunkPerSegment(_, _, _)
ChunkPerSegment(s, from, label) ==
    LET later == {k \in HeadingStarts(s) : k >= from}
        next  == IF later = {} THEN -1 ELSE MinOf(later)
        prose == IF next = -1 THEN Substring(s, from, Len(s))
                 ELSE Substring(s, from, next - 2)
        this  == IF Trim(prose) = <<>> THEN <<>>
                 ELSE << <<label, Trim(prose)>> >>
    IN  IF next = -1 THEN this
        ELSE this \o ChunkPerSegment(s, HeadingEnd(s, next),
                                     Substring(s, next, HeadingEnd(s, next)))

\* The same for a whole text: the text before the first heading is the
\* Introduction.
ChunkPerChapter(s) ==
    IF HeadingEnd(s, 0) # -1
    THEN ChunkPerSegment(s, HeadingEnd(s, 0), Substring(s, 0, HeadingEnd(s, 0)))
    ELSE ChunkPerSegment(s, 0, Introduction)

\* C30: for a text whose headings each start the text or follow a blank
\* line, and a chunkSize larger than the trimmed prose of every chapter,
\* the finished book has one chunk per non-empty prose segment, in order:
\* the prose before the first heading under "Introduction", the prose
\* after a heading under that heading, the content being the trimmed prose
\* without the heading.
C30_OneChunkPerChapter ==
    ( /\ pc = "done"
      /\ \A k \in HeadingStarts(text) : AfterBlankLine(text, k)
      /\ \A n \in DOMAIN ChunkPerChapter(text) :
            Len(ChunkPerChapter(text)[n][2]) < chunkSize ) =>
        [k \in DOMAIN allChunks |->
            <<allChunks[k].chapter, allChunks[k].content>>]
          = ChunkPerChapter(text)

\* A finished run over a text with prose before a heading and prose after
\* it, each shorter than chunkSize: two chunks, the first of the
\* Introduction, the second of the heading's chapter.
C30_Witness ==
    /\ pc = "done"
    /\ \A k \in HeadingStarts(text) : AfterBlankLine(text, k)
    /\ Len(ChunkPerChapter(text)) = 2
    /\ \A n \in DOMAIN ChunkPerChapter(text) :
          Len(ChunkPerChapter(text)[n][2]) < chunkSize
    /\ Len(allChunks) = 2
    /\ allChunks[1].chapter = Introduction
    /\ allChunks[2].chapter # Introduction

\* The indices of s at which a heading starts the text or follows a blank
\* line.
ChapterStarts(s) == {k \in HeadingStarts(s) : AfterBlankLine(s, k)}

\* The text of s from index from on without the headings at ChapterStarts
\* and the blank lines before them.
RECURSIVE ProseFrom(_, _)
ProseFrom(s, from) ==
    LET later == {k \in ChapterStarts(s) : k >= from}
        next  == IF later = {} THEN -1 ELSE MinOf(later)
    IN  IF next = -1 THEN Substring(s, from, Len(s))
        ELSE Substring(s, from, next - 2) \o ProseFrom(s, HeadingEnd(s, next))

\* The same for a whole text.
ProseOutsideChapterHeadings(s) ==
    IF HeadingEnd(s, 0) # -1 THEN ProseFrom(s, HeadingEnd(s, 0))
    ELSE ProseFrom(s, 0)

SentenceOne ==
    << "S", "e", "n", "t", "e", "n", "c", "e", " ", "o", "n", "e", "." >>

SentencesOneAndTwo ==
    << "S", "e", "n", "t", "e", "n", "c", "e", " ", "o", "n", "e", ".",
       " ", "S", "e", "n", "t", "e", "n", "c", "e", " ", "t", "w", "o",
       "." >>

\* C32 as stated: for SentencesText and chunkSize 30 the first chunk is cut
\* at a sentence end within the first 30 characters and its content is
\* "Sentence one.".
C32_FirstChunkIsSentenceOne ==
    (text = SentencesText /\ chunkSize = 30 /\ allChunks # <<>>) =>
        /\ Len(allChunks[1].content) <= chunkSize
        /\ allChunks[1].content[Len(allChunks[1].content)] \in SentenceEnders
        /\ allChunks[1].content = SentenceOne

\* C32 amended: for SentencesText and chunkSize 30 the first chunk is cut
\* at the last sentence end within the first 30 characters, before a
\* space, and its content is "Sentence one. Sentence two.".
C32_FirstChunkIsTwoSentences ==
    (text = SentencesText /\ chunkSize = 30 /\ allChunks # <<>>) =>
        /\ Len(allChunks[1].content) <= chunkSize
        /\ allChunks[1].content[Len(allChunks[1].content)] \in SentenceEnders
        /\ text[Len(allChunks[1].content) + 1] = " "
        /\ allChunks[1].content = SentencesOneAndTwo

\* The first chunk of SentencesText with chunkSize 30 was emitted.
C32_Witness ==
    /\ text = SentencesText
    /\ chunkSize = 30
    /\ Len(allChunks) = 1
    /\ Len(remainingText) > chunkSize

\* C33: when storage holds no chunkSize, be it a settings record without
\* one or no settings record at all, the load does not fail and the text is
\* chunked with chunkSize 2000.
C33_DefaultChunkSize ==
    "chunkSize" \notin DOMAIN settings =>
        /\ pc # "failed"
        /\ ~(loadResponse.answered /\ ~loadResponse.success)
        /\ (pc # "settings" => chunkSize = DefaultChunkSize)

\* C34: the delivery of a chunk of book A affects book A only: when
\* another book or no book is current at that moment the current book is
\* left as it is, and the one request the delivery sends stores, for book
\* A, the delivered chunk as sent.
C34_DispatchAffectsOwnBook ==
    [][ \A b \in BookIds, k \in 0..(MaxChunks - 1) :
          delivered' = delivered (+) SetToBag({<<b, k>>}) =>
              /\ currentBook.id # b => currentBook' = currentBook
              /\ bgQueue' # <<>>
              /\ LET r == bgQueue'[Len(bgQueue')]
                 IN /\ bgQueue' = Append(bgQueue, r)
                    /\ r.action = "updateBook"
                    /\ r.bookId = b
                    /\ k < Len(r.data.chunks)
                    /\ r.data.chunks[k + 1].status = "sent" ]_vars

\* C35: with Send All, Pause and replies only, no chunk is delivered to
\* the chat more than once.
C35_DeliveredAtMostOnce ==
    \A p \in BagToSet(delivered) : CopiesIn(p, delivered) <= 1

\* C36: a chunk that is sent in the persisted library is sent in it ever
\* after.
C36_SentStaysSent ==
    [][ \A n \in DOMAIN library : \A k \in DOMAIN library[n].chunks :
          library[n].chunks[k].status = "sent" =>
              /\ n \in DOMAIN library'
              /\ library'[n].id = library[n].id
              /\ k \in DOMAIN library'[n].chunks
              /\ library'[n].chunks[k].status = "sent" ]_vars

\* C37: for every text and every chunkSize that can be stored the
\* chunking loop ends: processAndSaveBook gets to build the book.
C37_ChunkingTerminates == <>(pc = "done")

\* C38: every load request that needs the offscreen document gets exactly
\* one response: never more than one, and one eventually after it arrived.
C38_EveryLoadAnswered ==
    /\ [](\A l \in Loads : loads[l].responses <= 1)
    /\ \A l \in Loads :
          (loads[l].pc # "new") ~> (loads[l].responses = 1)

\* The load requests that have set up the offscreen document and have not
\* got their parse result.
UsingDocument ==
    {l \in Loads : loads[l].pc \in {"getContexts", "creating", "awaitReady",
                                     "parsing"}}

\* C39: the offscreen document is not closed and readyPromise is not reset
\* while another load request uses the document, and the parse message is
\* sent only while an offscreen document exists.
C39_DocumentKeptWhileUsed ==
    [][ /\ ( \/ (offscreenDocument # "none" /\ offscreenDocument' = "none")
             \/ (readyPromise # 0 /\ readyPromise' = 0) )
            => UsingDocument = {}
        /\ \A l \in Loads :
              (loads[l].pc = "awaitReady" /\ loads'[l].pc # "awaitReady")
                  => offscreenDocument # "none" ]_vars

\* C8: once Send All is on for the selected book, eventually every chunk
\* of the book is sent and Send All is off, provided every dispatch
\* succeeds, replies keep arriving and Pause is not clicked.
C8_SendAllCompletes ==
    (HasBook /\ isSendingAll) ~> (HasBook /\ AllSent(currentBook) /\ ~isSendingAll)

\* Send All has sent every chunk of the larger book and has stopped.
C8_Witness ==
    /\ currentBook.id = "book_1"
    /\ AllSent(currentBook)
    /\ BagCardinality(delivered) >= MaxChunks
    /\ ~isSendingAll
    /\ ~pauseShown

====
